---- MODULE Spec2Model ----
(***************************************************************************)
(* Model of the EduShare API request router (src/api/index.js).            *)
(*                                                                         *)
(* The router keeps no state of its own: the state is the metadata store   *)
(* (Cosmos container, partitioned by /visibility), the object store (blob  *)
(* container), the wall clock, and the position of every request handler   *)
(* that is suspended at an `await`.  JavaScript runs a handler without     *)
(* interruption between two awaits, so one action is one such stretch of   *)
(* code together with the completion of the store call that precedes it.   *)
(* A store call that fails has no effect on its store.                     *)
(*                                                                         *)
(* Modelled routes: POST /files, GET /files/:id, PUT /files/:id and        *)
(* DELETE /files/:id.  GET /, GET /health and the listing GET /files only  *)
(* read, and no property below is about them.                              *)
(***************************************************************************)
EXTENDS Integers, Sequences, FiniteSets, TLC

\* ---- Bounds -------------------------------------------------------------
\* number of request handlers that can be in flight at once
MaxHandlers == 2
\* number of uploads that get as far as makeId
MaxUploads == 1
\* largest reading of the millisecond clock
MaxTime == 1

Procs == 1..MaxHandlers
\* ids handed out by makeId; UnknownId is an id that was never handed out
Ids == 1..MaxUploads
UnknownId == 0

\* ---- JavaScript values of request fields --------------------------------
\* A field of req.body / req.query is undefined, a string, or (JSON body,
\* repeated form field, repeated query parameter) a truthy non-string value.
Str(s) == [t |-> "str", s |-> s]
Undef == [t |-> "undef", s |-> <<>>]
NonString == [t |-> "other", s |-> <<>>]

Truthy(v) == v.t = "other" \/ (v.t = "str" /\ v.s # <<>>)

\* a || b
Or(a, b) == IF Truthy(a) THEN a ELSE b

Public == <<"p", "u", "b", "l", "i", "c">>
Private == <<"p", "r", "i", "v", "a", "t", "e">>
PublicUpper == <<"P", "U", "B", "L", "I", "C">>
Friends == <<"a", "l", "l">>
Untitled == <<"U", "n", "t", "i", "t", "l", "e", "d">>

Visibilities == {Public, Private}

LowerChar(c) ==
  CASE c = "P" -> "p"
    [] c = "U" -> "u"
    [] c = "B" -> "b"
    [] c = "L" -> "l"
    [] c = "I" -> "i"
    [] c = "C" -> "c"
    [] OTHER -> c

\* String.prototype.toLowerCase
ToLowerCase(s) == [i \in 1..Len(s) |-> LowerChar(s[i])]

IsSpace(c) == c = " "

RECURSIVE TrimStart(_)
TrimStart(s) == IF s # <<>> /\ IsSpace(Head(s)) THEN TrimStart(Tail(s)) ELSE s

RECURSIVE TrimEnd(_)
TrimEnd(s) ==
  IF s # <<>> /\ IsSpace(s[Len(s)]) THEN TrimEnd(SubSeq(s, 1, Len(s) - 1)) ELSE s

\* String.prototype.trim
Trim(s) == TrimEnd(TrimStart(s))

\* s.replace(/\s+/g, "_"): every maximal run of whitespace becomes one "_"
RECURSIVE ReplaceSpaces(_)
ReplaceSpaces(s) ==
  IF s = <<>> THEN <<>>
  ELSE IF IsSpace(Head(s)) THEN <<"_">> \o ReplaceSpaces(TrimStart(s))
  ELSE <<Head(s)>> \o ReplaceSpaces(Tail(s))

\* ---- Helpers of the router ----------------------------------------------
\* Result of an expression that may throw a TypeError.
Ok(s) == [ok |-> TRUE, s |-> s]
Throws == [ok |-> FALSE, s |-> <<>>]

\* safeVisibility(v): (v || "private").toLowerCase(), then the membership
\* test.  Calling .toLowerCase on a truthy non-string throws.
safeVisibility(v) ==
  LET x == Or(v, Str(Private)) IN
  IF x.t # "str" THEN Throws
  ELSE LET vis == ToLowerCase(x.s) IN
       IF vis \notin Visibilities THEN Ok(Private) ELSE Ok(vis)

\* the uploaded file part (req.file), or none
NoFile == [present |-> FALSE, originalname |-> <<>>, mimetype |-> <<>>, size |-> 0]
FileA == [present |-> TRUE, originalname |-> <<"m", " ", " ", "n">>,
          mimetype |-> <<"x">>, size |-> 4]
Files == {NoFile, FileA}

\* (req.body.title || req.file?.originalname || "Untitled").trim()
postTitle(title, file) ==
  LET name == IF file.present THEN Str(file.originalname) ELSE Undef
      x == Or(Or(title, name), Str(Untitled)) IN
  IF x.t # "str" THEN Throws ELSE Ok(Trim(x.s))

\* (req.body.title || "").trim()
putTitle(title) ==
  LET x == Or(title, Str(<<>>)) IN
  IF x.t # "str" THEN Throws ELSE Ok(Trim(x.s))

\* makeId(): a fresh identifier; the n-th call returns n
makeId(n) == n

\* `${id}-${req.file.originalname}`.replace(/\s+/g, "_")
makeBlobName(id, file) == <<id>> \o ReplaceSpaces(<<"-">> \o file.originalname)

\* ---- Inputs -------------------------------------------------------------
\* values of the visibility field (body of POST and PUT, query of GET and DELETE)
VisInputs == {Undef, NonString, Str(PublicUpper), Str(Friends)}
\* values of the visibility query parameter of PUT
QueryVisInputs == {Undef, Str(Public)}
\* values of the title field
TitleInputs == {Undef, NonString, Str(<<" ">>), Str(<<" ", "b", " ">>)}

\* ---- State --------------------------------------------------------------
VARIABLES
  docs,      \* metadata store: (id, visibility) -> document
  blobs,     \* object store: names of the blobs present
  containerExists, \* the blob container has been created
  nextId,    \* number of makeId() calls so far, plus one
  now,       \* latest reading of the wall clock, in milliseconds
  req,       \* per handler slot: the request in flight and its local variables
  last,      \* the request answered most recently, with its response
  removed,   \* keys whose document a delete has removed from the metadata store
  acked,     \* keys whose delete has been answered { deleted: true, id }
  orphaned   \* names of blobs whose metadata insert failed

vars == <<docs, blobs, containerExists, nextId, now, req, last, removed, acked, orphaned>>

\* ---- Documents and responses ---------------------------------------------
Doc(id, visibility, title, file, blobName, createdAt, updatedAt) ==
  [id |-> id, visibility |-> visibility, title |-> title,
   fileName |-> file.originalname, mimeType |-> file.mimetype, size |-> file.size,
   blobName |-> blobName, blobUrl |-> <<"/">> \o blobName,
   createdAt |-> createdAt, updatedAt |-> updatedAt]

\* the value of `resource` while nothing has been read
NullDoc == Doc(UnknownId, <<>>, <<>>, NoFile, <<>>, 0, 0)

\* res.status(s).json(doc)
JsonAsset(s, doc) == [status |-> s, body |-> "asset", doc |-> doc, id |-> doc.id, error |-> ""]
\* res.json({ deleted: true, id })
JsonDeleted(id) == [status |-> 200, body |-> "deleted", doc |-> NullDoc, id |-> id, error |-> ""]
\* res.status(s).json({ error })
JsonError(s, msg) == [status |-> s, body |-> "error", doc |-> NullDoc, id |-> UnknownId, error |-> msg]

\* A request in flight: its route, the await its handler is suspended at, the
\* handler's local variables, and a record of what the request carried (field:
\* the visibility field of an upload; noFile; noVis), what was true when it
\* arrived (late: a delete of its key had been answered; gone: its key's
\* document had been removed) and the store calls it made, with their outcomes.
Idle == [kind |-> "none", pc |-> "idle", id |-> UnknownId, visibility |-> <<>>,
         title |-> <<>>, file |-> NoFile, blobName |-> <<>>, resource |-> NullDoc,
         field |-> Undef, noFile |-> FALSE, noVis |-> FALSE, late |-> FALSE,
         gone |-> FALSE, calls |-> <<>>]

\* An answered request: the request (without the handler's working copies; the
\* visibility field is kept for an upload answered 201), its response, and for
\* an update the title and updatedAt the store held just before the replace
\* took effect.
Event(r, response, prevTitle, prevUpdatedAt) ==
  [req |-> [r EXCEPT !.pc = "done", !.resource = NullDoc, !.file = NoFile,
                     !.field = IF response.status = 201 THEN @ ELSE Undef],
   resp |-> response, prevTitle |-> prevTitle, prevUpdatedAt |-> prevUpdatedAt]

\* of a request answered before its handler first suspends, only the route,
\* what it carried, what was true when it arrived and its store call are kept
Brief(r) ==
  [Idle EXCEPT !.kind = r.kind, !.noFile = r.noFile, !.noVis = r.noVis,
               !.late = r.late, !.gone = r.gone, !.calls = r.calls]

NoEvent == Event(Idle, JsonError(0, ""), <<>>, 0)

\* ---- The two stores ------------------------------------------------------
Key(id, visibility) == <<id, visibility>>
Has(d, k) == k \in DOMAIN d

\* container.items.create(doc): fails on an id already in the partition
CreateItem(d, doc) ==
  LET k == Key(doc.id, doc.visibility) IN
  IF Has(d, k) THEN [ok |-> FALSE, docs |-> d]
  ELSE [ok |-> TRUE, docs |-> [x \in DOMAIN d \cup {k} |-> IF x = k THEN doc ELSE d[x]]]

\* container.item(id, visibility).read(): resource is undefined when the
\* partition holds no document with that id
ReadItem(d, k) ==
  IF Has(d, k) THEN [found |-> TRUE, resource |-> d[k]]
  ELSE [found |-> FALSE, resource |-> NullDoc]

\* a replace that creates the document when it is absent (an upsert)
ReplaceItemUpsert(d, k, resource) ==
  [ok |-> TRUE, docs |-> [x \in DOMAIN d \cup {k} |-> IF x = k THEN resource ELSE d[x]]]

\* container.item(id, visibility).replace(resource): the store rejects the
\* replace of a document that is not there (404), and the call throws
ReplaceItem(d, k, resource) ==
  IF ~Has(d, k) THEN [ok |-> FALSE, docs |-> d]
  ELSE [ok |-> TRUE, docs |-> [d EXCEPT ![k] = resource]]

\* container.item(id, visibility).delete(): throws when the document is absent
DeleteItem(d, k) ==
  IF ~Has(d, k) THEN [ok |-> FALSE, docs |-> d]
  ELSE [ok |-> TRUE, docs |-> [x \in DOMAIN d \ {k} |-> d[x]]]

\* an upload that leaves the blob behind even when the call fails
UploadDataPartial(bs, name, ok) == bs \cup {name}

\* blockBlob.uploadData(buffer): the blob exists once the call has succeeded
UploadData(bs, name, ok) == IF ok THEN bs \cup {name} ELSE bs

\* blobClient.deleteIfExists(): no error when the blob is absent
DeleteIfExists(bs, name, ok) == IF ok THEN bs \ {name} ELSE bs

\* a delete handler that does not await the blob delete and swallows its failure
DeleteFinishSwallow(ok, id) == JsonDeleted(id)

\* end of the delete handler: the awaited blob delete either returns, and the
\* handler answers { deleted: true, id }, or throws into the catch block
DeleteFinish(ok, id) ==
  IF ok THEN JsonDeleted(id) ELSE JsonError(500, "dependency")

\* new Date(): a reading of the clock, which does not run backwards
ClockReadings(t) == {u \in {t, t + 1} : u <= MaxTime}

\* ---- Requests ------------------------------------------------------------
\* a request arrives and takes the first free handler slot
Receive(p) ==
  /\ req[p].kind = "none"
  /\ \A q \in Procs : q < p => req[q].kind # "none"

\* ids a client can name, handed out already or not
KnownIds == Ids

Called(r, c) == \E i \in DOMAIN r.calls : r.calls[i] = c
Call(r, c) == [r EXCEPT !.calls = @ \o <<c>>]

\* the handler answers and ends
Answer(p, r, response) ==
  /\ req' = [req EXCEPT ![p] = Idle]
  /\ last' = Event(r, response, <<>>, 0)

\* the handler suspends at its next await
Suspend(p, r, at) ==
  /\ req' = [req EXCEPT ![p] = [r EXCEPT !.pc = at]]
  /\ UNCHANGED last

Init ==
  /\ docs = [k \in {} |-> NullDoc]
  /\ blobs = {}
  /\ containerExists = FALSE
  /\ nextId = 1
  /\ now = 0
  /\ req = [p \in Procs |-> Idle]
  /\ last = NoEvent
  /\ removed = {}
  /\ acked = {}
  /\ orphaned = {}

\* POST /files, up to the await of uploadData (lines 58-72)
PostFiles(p) ==
  /\ Receive(p)
  /\ \E field \in VisInputs, t \in TitleInputs, file \in Files :
       LET visibility == safeVisibility(field)
           title == postTitle(t, file)
           r == [Idle EXCEPT !.kind = "POST", !.field = field, !.noFile = ~file.present]
           id == makeId(nextId)
       IN
       IF ~visibility.ok \/ ~title.ok
       THEN /\ Answer(p, Brief(r), JsonError(500, "TypeError"))
            /\ UNCHANGED <<containerExists, nextId>>
       ELSE IF ~file.present
       THEN /\ Answer(p, Brief(r), JsonError(400, "Missing file"))
            /\ UNCHANGED <<containerExists, nextId>>
       ELSE \/ /\ Answer(p, Brief(Call(r, "container:fail")), JsonError(500, "dependency"))
               /\ UNCHANGED <<containerExists, nextId>>
            \/ /\ nextId <= MaxUploads
               /\ containerExists' = TRUE
               /\ nextId' = nextId + 1
               /\ Suspend(p, [Call(r, "container:ok") EXCEPT
                                !.id = id, !.visibility = visibility.s, !.title = title.s,
                                !.file = file, !.blobName = makeBlobName(id, file)],
                          "uploadData")
  /\ UNCHANGED <<docs, blobs, now, removed, acked, orphaned>>

\* uploadData completes; the document is built and items.create is awaited
\* (lines 72-89).  createdAt and updatedAt are two readings of the clock.
PostUpload(p) ==
  /\ req[p].pc = "uploadData"
  /\ \E ok \in BOOLEAN :
       /\ blobs' = UploadData(blobs, req[p].blobName, ok)
       /\ IF ~ok
          THEN /\ Answer(p, Call(req[p], "upload:fail"), JsonError(500, "dependency"))
               /\ UNCHANGED now
          ELSE \E createdAt \in ClockReadings(now) : \E updatedAt \in ClockReadings(createdAt) :
                 /\ now' = updatedAt
                 /\ Suspend(p, [Call(req[p], "upload:ok") EXCEPT !.resource =
                                  Doc(req[p].id, req[p].visibility, req[p].title, req[p].file,
                                      req[p].blobName, createdAt, updatedAt)],
                            "create")
  /\ UNCHANGED <<docs, containerExists, nextId, removed, acked, orphaned>>

\* items.create completes; 201 with the document (lines 89-95)
PostCreate(p) ==
  /\ req[p].pc = "create"
  /\ \E ok \in BOOLEAN :
       LET c == CreateItem(docs, req[p].resource) IN
       IF ok /\ c.ok
       THEN /\ docs' = c.docs
            /\ Answer(p, Call(req[p], "create:ok"), JsonAsset(201, req[p].resource))
            /\ UNCHANGED orphaned
       ELSE /\ UNCHANGED docs
            /\ Answer(p, Call(req[p], "create:fail"), JsonError(500, "dependency"))
            /\ orphaned' = orphaned \cup {req[p].blobName}
  /\ UNCHANGED <<blobs, containerExists, nextId, now, removed, acked>>

\* GET /files/:id (lines 118-131)
GetFile(p) ==
  /\ Receive(p)
  /\ \E id \in KnownIds, q \in VisInputs :
       LET visibility == safeVisibility(q)
           k == Key(id, visibility.s)
           f == ReadItem(docs, k)
           r == [Idle EXCEPT !.kind = "GET", !.id = id, !.visibility = visibility.s,
                             !.late = k \in acked, !.gone = k \in removed]
       IN
       IF ~visibility.ok THEN Answer(p, Brief(r), JsonError(500, "TypeError"))
       ELSE \/ Answer(p, Brief(Call(r, "read:fail")), JsonError(500, "dependency"))
            \/ /\ ~f.found
               /\ Answer(p, Brief(Call(r, "read:miss")), JsonError(404, "Not found"))
            \/ /\ f.found
               /\ Answer(p, Brief(Call(r, "read:hit")), JsonAsset(200, f.resource))
  /\ UNCHANGED <<docs, blobs, containerExists, nextId, now, removed, acked, orphaned>>

\* PUT /files/:id, up to the await of replace (lines 137-151)
PutFile(p) ==
  /\ Receive(p)
  /\ \E id \in KnownIds, b \in VisInputs, q \in QueryVisInputs, t \in TitleInputs :
       LET visibility == safeVisibility(Or(b, q))
           newTitle == putTitle(t)
           k == Key(id, visibility.s)
           f == ReadItem(docs, k)
           r == [Idle EXCEPT !.kind = "PUT", !.id = id, !.visibility = visibility.s,
                             !.title = newTitle.s, !.noVis = (b = Undef /\ q = Undef),
                             !.late = k \in acked, !.gone = k \in removed]
       IN
       IF ~visibility.ok \/ ~newTitle.ok
       THEN /\ Answer(p, Brief(r), JsonError(500, "TypeError"))
            /\ UNCHANGED now
       ELSE IF visibility.s = <<>>
       THEN /\ Answer(p, Brief(r), JsonError(400, "visibility required"))
            /\ UNCHANGED now
       ELSE \/ /\ Answer(p, Brief(Call(r, "read:fail")), JsonError(500, "dependency"))
               /\ UNCHANGED now
            \/ /\ ~f.found
               /\ Answer(p, Brief(Call(r, "read:miss")), JsonError(404, "Not found"))
               /\ UNCHANGED now
            \/ /\ f.found
               /\ \E updatedAt \in ClockReadings(now) :
                    /\ now' = updatedAt
                    /\ Suspend(p, [Call(r, "read:hit") EXCEPT !.resource =
                                     [f.resource EXCEPT
                                        !.title = IF newTitle.s # <<>> THEN newTitle.s ELSE @,
                                        !.updatedAt = updatedAt]],
                               "replace")
  /\ UNCHANGED <<docs, blobs, containerExists, nextId, removed, acked, orphaned>>

\* replace completes; 200 with the stored document (lines 151-156)
PutReplace(p) ==
  /\ req[p].pc = "replace"
  /\ \E ok \in BOOLEAN :
       LET k == Key(req[p].id, req[p].visibility)
           c == ReplaceItem(docs, k, req[p].resource)
           prev == ReadItem(docs, k).resource
       IN
       IF ~ok
       THEN /\ UNCHANGED docs
            /\ Answer(p, Call(req[p], "replace:fail"), JsonError(500, "dependency"))
       ELSE IF ~c.ok
       THEN /\ UNCHANGED docs
            /\ Answer(p, Call(req[p], "replace:absent"), JsonError(500, "Not found in store"))
       ELSE /\ docs' = c.docs
            /\ req' = [req EXCEPT ![p] = Idle]
            /\ last' = Event(Call(req[p], "replace:ok"), JsonAsset(200, c.docs[k]),
                             prev.title, prev.updatedAt)
  /\ UNCHANGED <<blobs, containerExists, nextId, now, removed, acked, orphaned>>

\* DELETE /files/:id, up to the await of the metadata delete (lines 161-172).
\* Of the document read, the handler uses blobName only.
DeleteFile(p) ==
  /\ Receive(p)
  /\ \E id \in KnownIds, q \in VisInputs :
       LET visibility == safeVisibility(q)
           k == Key(id, visibility.s)
           f == ReadItem(docs, k)
           r == [Idle EXCEPT !.kind = "DELETE", !.id = id, !.visibility = visibility.s,
                             !.late = k \in acked, !.gone = k \in removed]
       IN
       IF ~visibility.ok THEN Answer(p, Brief(r), JsonError(500, "TypeError"))
       ELSE IF visibility.s = <<>> THEN Answer(p, Brief(r), JsonError(400, "visibility required"))
       ELSE \/ Answer(p, Brief(Call(r, "read:fail")), JsonError(500, "dependency"))
            \/ /\ ~f.found
               /\ Answer(p, Brief(Call(r, "read:miss")), JsonError(404, "Not found"))
            \/ /\ f.found
               /\ Suspend(p, [Call(r, "read:hit") EXCEPT !.blobName = f.resource.blobName],
                          "delete")
  /\ UNCHANGED <<docs, blobs, containerExists, nextId, now, removed, acked, orphaned>>

\* the metadata delete completes; the blob delete is awaited (lines 172-177)
DeleteMeta(p) ==
  /\ req[p].pc = "delete"
  /\ \E ok \in BOOLEAN :
       LET k == Key(req[p].id, req[p].visibility)
           c == DeleteItem(docs, k)
           r == [req[p] EXCEPT !.gone = @ \/ k \in removed]
       IN
       IF ~ok
       THEN /\ Answer(p, Call(r, "delete:fail"), JsonError(500, "dependency"))
            /\ UNCHANGED <<docs, removed, acked>>
       ELSE IF ~c.ok
       THEN /\ Answer(p, Call(r, "delete:absent"), JsonError(500, "Not found in store"))
            /\ UNCHANGED <<docs, removed, acked>>
       ELSE /\ docs' = c.docs
            /\ removed' = removed \cup {k}
            /\ IF r.blobName # <<>>
               THEN /\ Suspend(p, Call(r, "delete:ok"), "deleteIfExists")
                    /\ UNCHANGED acked
               ELSE /\ Answer(p, Call(r, "delete:ok"), JsonDeleted(r.id))
                    /\ acked' = acked \cup {k}
  /\ UNCHANGED <<blobs, containerExists, nextId, now, orphaned>>

\* the blob delete completes (lines 177-185)
DeleteBlob(p) ==
  /\ req[p].pc = "deleteIfExists"
  /\ \E ok \in BOOLEAN :
       LET response == DeleteFinish(ok, req[p].id) IN
       /\ blobs' = DeleteIfExists(blobs, req[p].blobName, ok)
       /\ Answer(p, Call(req[p], IF ok THEN "blob:ok" ELSE "blob:fail"), response)
       /\ acked' = IF response.body = "deleted"
                   THEN acked \cup {Key(req[p].id, req[p].visibility)} ELSE acked
  /\ UNCHANGED <<docs, containerExists, nextId, now, removed, orphaned>>

Next ==
  \/ \E p \in Procs : PostFiles(p)
  \/ \E p \in Procs : PostUpload(p)
  \/ \E p \in Procs : PostCreate(p)
  \/ \E p \in Procs : GetFile(p)
  \/ \E p \in Procs : PutFile(p)
  \/ \E p \in Procs : PutReplace(p)
  \/ \E p \in Procs : DeleteFile(p)
  \/ \E p \in Procs : DeleteMeta(p)
  \/ \E p \in Procs : DeleteBlob(p)

Spec == Init /\ [][Next]_vars

\* ---- Properties -----------------------------------------------------------
\* the request answered most recently made store call c
Did(c) == Called(last.req, c)
Answered(route) == last.req.kind = route
NoDocFor(id) == \A v \in Visibilities : ~Has(docs, Key(id, v))

C2_NoVisibilityIs400 ==
  (Answered("PUT") /\ last.req.noVis /\ last.resp.error # "TypeError"
     /\ ~Did("read:fail") /\ ~Did("replace:fail"))
    => (last.resp.status = 400 /\ last.req.calls = <<>>)

\* C3 (as stated): a POST without a file part is answered 400 whatever the
\* other fields are, and writes nothing to either store.
C3_NoFileIs400 ==
  (Answered("POST") /\ last.req.noFile)
    => (last.resp.status = 400 /\ last.req.calls = <<>>)

\* C4 (as stated): every successful PUT leaves the stored updatedAt strictly
\* later than the value stored just before its replace took effect.
C4_UpdatedAtAdvances ==
  (Answered("PUT") /\ Did("replace:ok"))
    => last.resp.doc.updatedAt > last.prevUpdatedAt

\* C5 (as stated): a successful PUT that supplies no title (or an empty or
\* whitespace-only one) leaves the stored title as it was just before its
\* replace took effect.
C5_TitleUnchanged ==
  (Answered("PUT") /\ Did("replace:ok") /\ last.req.title = <<>>)
    => last.resp.doc.title = last.prevTitle

\* C6: once a DELETE of (id, visibility) has been answered { deleted: true, id },
\* the document is absent from the metadata store ever after, and every GET of
\* that (id, visibility) that arrives later and whose lookup completes is
\* answered 404 (500 only when the lookup itself fails, never 200).
C6_DeletedStaysDeleted ==
  /\ \A k \in acked : ~Has(docs, k)
  /\ (Answered("GET") /\ last.req.late)
       => /\ last.resp.status \in {404, 500}
          /\ last.resp.status = 500 <=> Did("read:fail")
          /\ last.resp.status = 404 <=> Did("read:miss")

\* C6 witness: a GET that arrived after the delete was acknowledged got 404.
C6_Witness ==
  /\ Answered("GET") /\ last.req.late /\ Did("read:miss")
  /\ last.resp.status = 404
  /\ acked # {}

\* C7 (as stated): the Asset returned with 201 has visibility public or private
\* (private when the field is absent or is neither value, case-insensitively),
\* an id that makeId handed out, and createdAt equal to updatedAt.
C7_CreatedAsset ==
  (Answered("POST") /\ last.resp.status = 201)
    => LET f == last.req.field
           named == f.t = "str" /\ ToLowerCase(f.s) \in Visibilities
       IN
       /\ last.resp.doc.visibility \in Visibilities
       /\ named => last.resp.doc.visibility = ToLowerCase(f.s)
       /\ ~named => last.resp.doc.visibility = Private
       /\ last.resp.doc.id \in Ids
       /\ last.resp.doc.createdAt = last.resp.doc.updatedAt

\* C8 (as stated): a DELETE of an (id, visibility) whose document has already
\* been deleted, whether it arrived after that or had already done its lookup,
\* is answered 404 (no store call of its own failing for another reason) and
\* changes neither store.
C8_DeleteOfDeletedIs404 ==
  (Answered("DELETE") /\ last.req.gone /\ ~Did("read:fail") /\ ~Did("delete:fail"))
    => (last.resp.status = 404 /\ ~Did("delete:ok") /\ ~Did("blob:ok"))

\* C9: in POST the blob is written before the document is inserted and nothing
\* is rolled back: while the insert is awaited the blob is there and the
\* document is not; if the insert fails the answer is 500, the blob stays and
\* no document of that id exists; if the blob write fails the answer is 500 and
\* neither the blob nor a document exists.
C9_BlobFirstNoRollback ==
  /\ \A p \in Procs : req[p].pc = "create" =>
       (req[p].blobName \in blobs /\ NoDocFor(req[p].id))
  /\ \A b \in orphaned :
       b \in blobs /\ \A k \in DOMAIN docs : docs[k].blobName # b
  /\ (Answered("POST") /\ Did("create:fail")) =>
       (last.resp.status = 500 /\ last.req.blobName \in orphaned /\ NoDocFor(last.req.id))
  /\ (Answered("POST") /\ Did("upload:fail")) =>
       (last.resp.status = 500 /\ last.req.blobName \notin blobs /\ NoDocFor(last.req.id))

\* C9 witness: an upload whose insert failed after its blob was written.
C9_Witness ==
  /\ Answered("POST") /\ Did("upload:ok") /\ Did("create:fail")
  /\ last.resp.status = 500
  /\ last.req.blobName \in blobs

\* C10: every document in the metadata store names a blob that is in the
\* object store.
C10_DocHasBlob == \A k \in DOMAIN docs : docs[k].blobName \in blobs

\* C10 witness: a document with its blob is in the store after an update
\* replaced it, while a delete that has read it is in flight.
C10_Witness ==
  /\ Answered("PUT") /\ Did("replace:ok")
  /\ \E p \in Procs : req[p].pc = "delete"
  /\ \E k \in DOMAIN docs : docs[k].blobName \in blobs

====
